---- MODULE Spec2Model ----
(***************************************************************************)
(* A model of the DOCX style extractor (docx_style_parser.cpp).            *)
(*                                                                         *)
(* extractDocxStyles opens the archive, reads word/styles.xml, parses it,  *)
(* locates the style elements and builds one StyleInfo per element.  The   *)
(* model follows the call step by step: every library call that can fail,  *)
(* every unique_ptr guard and its destructor, and every step of the record *)
(* builder is an action.  The archives given to the call are drawn in Init *)
(* from bounded families of files.                                         *)
(***************************************************************************)
EXTENDS Integers, Sequences, FiniteSets, TLC

VARIABLES
    file,        \* the archive at filePath; never changed by the program
    pc,          \* position of the call
    guards,      \* live unique_ptr guards, innermost last
    opened,      \* per resource: how many handles the libraries handed out
    closed,      \* per resource: how many times a deleter released one
    stylesXml,   \* the byte buffer returned by readStylesXml
    doc,         \* the parsed tree held by the xmlDoc guard, or NULL
    styleNodes,  \* findStyleNodes' result: positions under the root
    styles,      \* the vector<StyleInfo> being filled
    nodeIt,      \* range-for position in styleNodes
    style,       \* the StyleInfo under construction in processStyleNode
    prop,        \* extractOtherProperties' cursor over the style's children
    child,       \* cursor over the children of an rPr / pPr container
    err,         \* what() of the exception in flight, "" when none
    outcomes     \* what the caller received from each finished call

vars == <<file, pc, guards, opened, closed, stylesXml, doc, styleNodes,
          styles, nodeIt, style, prop, child, err, outcomes>>

(***************************************************************************)
(* Bounds of the model.                                                    *)
(***************************************************************************)
MaxCalls == 2
MaxKids == 2

(***************************************************************************)
(* The libxml2 tree, as the code reads it.                                 *)
(***************************************************************************)
NULL == <<>>

XML_ELEMENT_NODE == "element"
XML_TEXT_NODE == "text"
XML_PI_NODE == "pi"

Attr(name, value) == [name |-> name, value |-> value]

Element(name, attrs, kids) ==
    [type |-> XML_ELEMENT_NODE, name |-> name, properties |-> attrs,
     children |-> kids, content |-> ""]

Text(s) ==
    [type |-> XML_TEXT_NODE, name |-> "text", properties |-> <<>>,
     children |-> <<>>, content |-> s]

PI(target) ==
    [type |-> XML_PI_NODE, name |-> target, properties |-> <<>>,
     children |-> <<>>, content |-> ""]

\* xmlGetProp: the value of the first attribute with that name, or NULL.
RECURSIVE attrLookup(_, _, _)
attrLookup(attrs, a, name) ==
    IF a > Len(attrs) THEN NULL
    ELSE IF attrs[a].name = name THEN <<attrs[a].value>>
    ELSE attrLookup(attrs, a + 1, name)

xmlGetProp(node, name) == attrLookup(node.properties, 1, name)

\* xmlNodeGetContent: the text of the node's descendants, concatenated.
RECURSIVE xmlNodeGetContent(_)
RECURSIVE contentOfList(_, _)
contentOfList(kids, k) ==
    IF k > Len(kids) THEN ""
    ELSE xmlNodeGetContent(kids[k])[1] \o contentOfList(kids, k + 1)

xmlNodeGetContent(node) ==
    IF node.type = XML_ELEMENT_NODE THEN <<contentOfList(node.children, 1)>>
    ELSE <<node.content>>

xmlDocGetRootElement(d) == d[1]

(***************************************************************************)
(* StyleInfo (docx_style_parser.h).                                        *)
(***************************************************************************)
EmptyMap == [k \in {} |-> ""]

StyleInfo ==
    [name |-> "", type |-> "", properties |-> EmptyMap,
     fontName |-> "", fontSize |-> ""]

\* std::map operator[] followed by assignment.
\* Variant: an existing key keeps its value (std::map::insert).
MapPut_insert(m, k, v) ==
    [x \in (DOMAIN m) \cup {k} |-> IF x \in DOMAIN m THEN m[x] ELSE v]

MapPut(m, k, v) == [x \in (DOMAIN m) \cup {k} |-> IF x = k THEN v ELSE m[x]]

(***************************************************************************)
(* findStyleNodes.                                                         *)
(***************************************************************************)
\* Variant: the scan of a style's children stops at the first qFormat.
RECURSIVE markerLoop_stopAtQFormat(_, _, _)
markerLoop_stopAtQFormat(kids, c, flags) ==
    IF c > Len(kids) THEN flags
    ELSE LET ch == kids[c]
         IN IF ch.type = XML_ELEMENT_NODE /\ ch.name = "qFormat"
            THEN [flags EXCEPT !.hasQFormat = TRUE]
            ELSE markerLoop_stopAtQFormat(kids, c + 1,
                     IF ch.type = XML_ELEMENT_NODE /\ ch.name = "semiHidden"
                     THEN [flags EXCEPT !.isHidden = TRUE]
                     ELSE flags)

RECURSIVE markerLoop(_, _, _)
markerLoop(kids, c, flags) ==
    IF c > Len(kids) THEN flags
    ELSE LET ch == kids[c]
             next == IF ch.type = XML_ELEMENT_NODE
                     THEN IF ch.name = "qFormat"
                          THEN [flags EXCEPT !.hasQFormat = TRUE]
                          ELSE IF ch.name = "semiHidden"
                          THEN [flags EXCEPT !.isHidden = TRUE]
                          ELSE flags
                     ELSE flags
         IN markerLoop(kids, c + 1, next)

RECURSIVE rootLoop(_, _, _)
rootLoop(kids, n, acc) ==
    IF n > Len(kids) THEN acc
    ELSE LET node == kids[n]
             flags == markerLoop(node.children, 1,
                                 [hasQFormat |-> FALSE, isHidden |-> FALSE])
         IN IF node.type = XML_ELEMENT_NODE /\ node.name = "style"
               /\ flags.hasQFormat /\ ~flags.isHidden
            THEN rootLoop(kids, n + 1, Append(acc, n))
            ELSE rootLoop(kids, n + 1, acc)

\* Variant: every style element under the root is selected.
RECURSIVE rootLoop_allStyles(_, _, _)
rootLoop_allStyles(kids, n, acc) ==
    IF n > Len(kids) THEN acc
    ELSE IF kids[n].type = XML_ELEMENT_NODE /\ kids[n].name = "style"
         THEN rootLoop_allStyles(kids, n + 1, Append(acc, n))
         ELSE rootLoop_allStyles(kids, n + 1, acc)

findStyleNodes_allStyles(d) ==
    rootLoop_allStyles(xmlDocGetRootElement(d).children, 1, <<>>)

findStyleNodes(d) == rootLoop(xmlDocGetRootElement(d).children, 1, <<>>)

(***************************************************************************)
(* extractFontProperties.                                                  *)
(***************************************************************************)
RECURSIVE rFontsAttrLoop(_, _, _)
rFontsAttrLoop(ch, a, st) ==
    IF a > Len(ch.properties) THEN st
    ELSE LET attrName == ch.properties[a].name
         IN IF attrName \in {"ascii", "hAnsi", "eastAsia"}
            THEN LET value == xmlGetProp(ch, attrName)
                 IN IF value # NULL
                    THEN [st EXCEPT !.fontName = value[1]]
                    ELSE rFontsAttrLoop(ch, a + 1, st)
            ELSE rFontsAttrLoop(ch, a + 1, st)

RECURSIVE fontChildLoop(_, _, _)
fontChildLoop(kids, c, st) ==
    IF c > Len(kids) THEN st
    ELSE LET ch == kids[c]
         IN IF ch.type # XML_ELEMENT_NODE THEN fontChildLoop(kids, c + 1, st)
            ELSE IF ch.name = "rFonts"
            THEN fontChildLoop(kids, c + 1, rFontsAttrLoop(ch, 1, st))
            ELSE IF ch.name = "sz"
            THEN LET size == xmlGetProp(ch, "val")
                 IN fontChildLoop(kids, c + 1,
                        IF size # NULL THEN [st EXCEPT !.fontSize = size[1]]
                        ELSE st)
            ELSE fontChildLoop(kids, c + 1, st)

extractFontProperties(rPrNode, st) == fontChildLoop(rPrNode.children, 1, st)

(***************************************************************************)
(* extractStyleName.                                                       *)
(***************************************************************************)
\* Variant: when no name child gave a name, the style element's own name
\* attribute is used.
RECURSIVE nameLoop_orAttribute(_, _, _, _)
nameLoop_orAttribute(node, kids, c, st) ==
    IF c > Len(kids)
    THEN IF attrLookup(node.properties, 1, "name") # NULL
         THEN [st EXCEPT !.name = attrLookup(node.properties, 1, "name")[1]]
         ELSE st
    ELSE LET ch == kids[c]
         IN IF ch.type = XML_ELEMENT_NODE /\ ch.name = "name"
               /\ attrLookup(ch.properties, 1, "val") # NULL
            THEN [st EXCEPT !.name = attrLookup(ch.properties, 1, "val")[1]]
            ELSE nameLoop_orAttribute(node, kids, c + 1, st)

extractStyleName_orAttribute(node, st) ==
    nameLoop_orAttribute(node, node.children, 1, st)

\* Variant: the scan goes on past a name child, so a later one overwrites.
RECURSIVE nameLoop_noBreak(_, _, _)
nameLoop_noBreak(kids, c, st) ==
    IF c > Len(kids) THEN st
    ELSE LET ch == kids[c]
         IN IF ch.type = XML_ELEMENT_NODE /\ ch.name = "name"
               /\ attrLookup(ch.properties, 1, "val") # NULL
            THEN nameLoop_noBreak(kids, c + 1,
                     [st EXCEPT
                        !.name = attrLookup(ch.properties, 1, "val")[1]])
            ELSE nameLoop_noBreak(kids, c + 1, st)

extractStyleName_noBreak(node, st) == nameLoop_noBreak(node.children, 1, st)

RECURSIVE nameLoop(_, _, _)
nameLoop(kids, c, st) ==
    IF c > Len(kids) THEN st
    ELSE LET ch == kids[c]
         IN IF ch.type = XML_ELEMENT_NODE /\ ch.name = "name"
            THEN LET val == xmlGetProp(ch, "val")
                 IN IF val # NULL THEN [st EXCEPT !.name = val[1]] ELSE st
            ELSE nameLoop(kids, c + 1, st)

extractStyleName(node, st) == nameLoop(node.children, 1, st)

(***************************************************************************)
(* processXmlProperties.                                                   *)
(***************************************************************************)
\* Variant: an element with neither val nor text writes no entry.
processXmlProperties_skipEmpty(node, st) ==
    IF node.type # XML_ELEMENT_NODE THEN st
    ELSE LET val == xmlGetProp(node, "val")
         IN IF val # NULL
            THEN [st EXCEPT !.properties = MapPut(@, node.name, val[1])]
            ELSE LET content == xmlNodeGetContent(node)
                 IN IF content # NULL /\ content[1] # ""
                    THEN [st EXCEPT
                            !.properties = MapPut(@, node.name, content[1])]
                    ELSE st

processXmlProperties(node, st) ==
    IF node.type # XML_ELEMENT_NODE THEN st
    ELSE LET val == xmlGetProp(node, "val")
         IN IF val # NULL
            THEN [st EXCEPT !.properties = MapPut(@, node.name, val[1])]
            ELSE LET content == xmlNodeGetContent(node)
                 IN IF content # NULL
                    THEN [st EXCEPT
                            !.properties = MapPut(@, node.name, content[1])]
                    ELSE st

(***************************************************************************)
(* extractOtherProperties and processStyleNode, as whole functions.        *)
(***************************************************************************)
RECURSIVE flattenLoop(_, _, _)
flattenLoop(kids, c, st) ==
    IF c > Len(kids) THEN st
    ELSE flattenLoop(kids, c + 1, processXmlProperties(kids[c], st))

RECURSIVE otherLoop(_, _, _)
otherLoop(kids, p, st) ==
    IF p > Len(kids) THEN st
    ELSE LET pr == kids[p]
         IN IF pr.type # XML_ELEMENT_NODE THEN otherLoop(kids, p + 1, st)
            ELSE IF pr.name = "rPr"
            THEN otherLoop(kids, p + 1,
                     flattenLoop(pr.children, 1, extractFontProperties(pr, st)))
            ELSE IF pr.name = "pPr"
            THEN otherLoop(kids, p + 1, flattenLoop(pr.children, 1, st))
            ELSE otherLoop(kids, p + 1, processXmlProperties(pr, st))

extractOtherProperties(node, st) == otherLoop(node.children, 1, st)

\* Variant: a style without a type attribute counts as a paragraph style.
readType_default(node, st) ==
    LET type == xmlGetProp(node, "type")
    IN [st EXCEPT !.type = IF type # NULL THEN type[1] ELSE "paragraph"]

readType(node, st) ==
    LET type == xmlGetProp(node, "type")
    IN IF type # NULL THEN [st EXCEPT !.type = type[1]] ELSE st

processStyleNode(node) ==
    extractOtherProperties(node,
        readType(node, extractStyleName(node, StyleInfo)))

(***************************************************************************)
(* The archives handed to extractDocxStyles.  A file fixes what libzip and *)
(* libxml2 answer: whether zip_open succeeds, whether word/styles.xml is   *)
(* there and can be opened, how many bytes zip_fread delivers against the  *)
(* size zip_stat declared, and whether the bytes are well-formed XML (and  *)
(* then the tree xmlReadMemory builds from them).                          *)
(***************************************************************************)
SeqsUpTo(S, n) == UNION {[1..k -> S] : k \in 0..n}

Injective(s) == \A a, b \in DOMAIN s : s[a] = s[b] => a = b

Style(attrs, kids) == Element("style", attrs, kids)

QFormat == Element("qFormat", <<>>, <<>>)

SemiHidden == Element("semiHidden", <<>>, <<>>)

NameOf(v) == Element("name", <<Attr("val", v)>>, <<>>)

Sz(v) == Element("sz", <<Attr("val", v)>>, <<>>)

Styles(kids) == Element("styles", <<>>, kids)

\* Root-level shapes: qualifying, hidden and bare styles, a style that is
\* not a direct child of the root, and nodes that are not style elements.
RootItems ==
    { Style(<<Attr("type", "paragraph")>>, <<NameOf("Normal"), QFormat>>),
      Style(<<Attr("type", "character")>>, <<QFormat, NameOf("Normal")>>),
      Style(<<>>, <<QFormat, NameOf("Title")>>),
      Style(<<>>, <<QFormat, SemiHidden>>),
      Style(<<>>, <<NameOf("Bare")>>),
      Element("latentStyles", <<>>, <<Style(<<>>, <<QFormat>>)>>),
      Element("docDefaults", <<>>, <<QFormat>>),
      PI("style"),
      Text(" ") }

RootDocs == {Styles(k) : k \in SeqsUpTo(RootItems, MaxKids)}

\* Marker shapes inside one style: the markers as elements, as nodes that
\* are not elements, and nested one level down.
MarkerItems ==
    { QFormat, SemiHidden, PI("qFormat"), PI("semiHidden"),
      Element("pPr", <<>>, <<QFormat>>),
      Element("pPr", <<>>, <<SemiHidden>>) }

MarkerDocs ==
    {Styles(<<Style(<<>>, k)>>) : k \in SeqsUpTo(MarkerItems, MaxKids)}

\* rFonts with its font attributes (and one the code does not look at)
\* written in every order.
FontAttrNames == {"ascii", "hAnsi", "eastAsia", "cs"}

FontValue(a) ==
    CASE a = "ascii" -> "Arial"
      [] a = "hAnsi" -> "Calibri"
      [] a = "eastAsia" -> "MS Mincho"
      [] OTHER -> "Noto"

FontAttrOrders ==
    {s \in SeqsUpTo(FontAttrNames, Cardinality(FontAttrNames)) : Injective(s)}

RFonts(order) ==
    Element("rFonts", [a \in DOMAIN order |-> Attr(order[a], FontValue(order[a]))],
            <<>>)

FontDocs ==
    {Styles(<<Style(<<>>, <<QFormat, Element("rPr", <<>>, <<RFonts(o)>>)>>)>>) :
        o \in FontAttrOrders}

\* Children of a run-properties container, and what may follow it.
RunItems ==
    { RFonts(<<"hAnsi", "eastAsia">>), Sz("24"), Sz("28"),
      Element("sz", <<>>, <<>>), Element("b", <<>>, <<>>), Text(" ") }

RunTails ==
    { <<>>, <<Sz("30")>>, <<Element("rPr", <<>>, <<Sz("36")>>)>> }

RunDocs ==
    {Styles(<<Style(<<>>, <<QFormat, Element("rPr", <<>>, k)>> \o t)>>) :
        k \in SeqsUpTo(RunItems, MaxKids), t \in RunTails}

\* Name declarations: as a child with and without val, as a node that is
\* not an element, and as an attribute of the style element itself.
NameItems ==
    { NameOf("Heading 1"), NameOf(" Heading 1 "),
      Element("name", <<>>, <<>>),
      Element("name", <<Attr("lang", "en")>>, <<Text("Inner")>>),
      PI("name") }

NameDocs ==
    {Styles(<<Style(a, <<QFormat>> \o k)>>) :
        a \in {<<>>, <<Attr("name", "OnStyle")>>},
        k \in SeqsUpTo(NameItems, MaxKids)}

\* Ordinary properties: with val, with text, with both, with neither, with
\* nested text, and containers holding them.
PropItems ==
    { Element("basedOn", <<Attr("val", "Normal")>>, <<>>),
      Element("basedOn", <<>>, <<Text("plain")>>),
      Element("uiPriority", <<Attr("val", "")>>, <<Text("9")>>),
      Element("rsid", <<>>,
              <<Element("x", <<>>, <<Text("a")>>), Text("b")>>),
      Element("keepNext", <<Attr("w", "1")>>, <<>>),
      Element("qFormat", <<Attr("val", "0")>>, <<>>),
      Element("pPr", <<>>,
              <<Element("jc", <<Attr("val", "center")>>, <<>>), Sz("20"),
                RFonts(<<"ascii">>)>>),
      Element("pPr", <<>>, <<Element("rPr", <<>>, <<Sz("22")>>)>>),
      Element("pPr", <<>>, <<Element("pPr", <<>>, <<Text("in")>>)>>),
      Element("rPr", <<>>,
              <<Sz("24"), Element("basedOn", <<Attr("val", "Run")>>, <<>>)>>),
      Text("x") }

PropDocs ==
    {Styles(<<Style(<<>>, <<QFormat>> \o k)>>) :
        k \in SeqsUpTo(PropItems, MaxKids)}

Docs == RootDocs \cup MarkerDocs \cup FontDocs \cup RunDocs \cup NameDocs
            \cup PropDocs

EntrySizes == {1, 2}

File(o, h, e, n, r, w, root) ==
    [openable |-> o, hasEntry |-> h, entryOpenable |-> e, size |-> n,
     fread |-> r, content |-> [wellFormed |-> w, root |-> root]]

\* Every well-formed document in a sound archive, and every way for the
\* stages to fail, alone or together.
GoodFiles ==
    {File(TRUE, TRUE, TRUE, n, n, TRUE, d) : n \in EntrySizes, d \in Docs}

BadFiles ==
    UNION {{File(o, h, e, n, r, w, Styles(<<Style(<<>>, <<QFormat>>)>>)) :
               o \in BOOLEAN, h \in BOOLEAN, e \in BOOLEAN, r \in -1..n,
               w \in BOOLEAN} : n \in EntrySizes}

Files == GoodFiles \cup BadFiles

(***************************************************************************)
(* runtime_error messages of the stages.                                   *)
(***************************************************************************)
OpenError == "Failed to open DOCX file"
EntryNotFoundError == "styles.xml not found in DOCX archive"
EntryOpenError == "Failed to open styles.xml in archive"
ReadError == "Failed to read styles.xml content"
ParseError == "Failed to parse styles.xml content"

Resources == {"zip", "stylesFile", "doc"}

Guard(res, held) == [res |-> res, held |-> held]

\* ~unique_ptr: the deleter runs when the pointer held is not null.
Release(g, cl) == IF g.held THEN [cl EXCEPT ![g.res] = @ + 1] ELSE cl

Pop(s) == SubSeq(s, 1, Len(s) - 1)

Top(s) == s[Len(s)]

Init ==
    /\ file \in Files
    /\ pc = "idle"
    /\ guards = <<>>
    /\ opened = [r \in Resources |-> 0]
    /\ closed = [r \in Resources |-> 0]
    /\ stylesXml = NULL
    /\ doc = NULL
    /\ styleNodes = <<>>
    /\ styles = <<>>
    /\ nodeIt = 0
    /\ style = StyleInfo
    /\ prop = 0
    /\ child = 0
    /\ err = ""
    /\ outcomes = <<>>

(***************************************************************************)
(* extractDocxStyles, step by step.                                        *)
(***************************************************************************)
Throw(what) ==
    /\ err' = what
    /\ pc' = "unwind"

\* The caller invokes extractDocxStyles(filePath).
Call ==
    /\ pc = "idle"
    /\ Len(outcomes) < MaxCalls
    /\ pc' = "openDocxFile"
    /\ UNCHANGED <<file, guards, opened, closed, stylesXml, doc, styleNodes,
                   styles, nodeIt, style, prop, child, err, outcomes>>

\* openDocxFile: zip_open, then the guard that owns the archive.
OpenDocxFile ==
    /\ pc = "openDocxFile"
    /\ IF file.openable
       THEN /\ opened' = [opened EXCEPT !.zip = @ + 1]
            /\ guards' = Append(guards, Guard("zip", TRUE))
            /\ pc' = "zip_stat"
            /\ err' = err
       ELSE /\ Throw(OpenError)
            /\ UNCHANGED <<opened, guards>>
    /\ UNCHANGED <<file, closed, stylesXml, doc, styleNodes, styles, nodeIt,
                   style, prop, child, outcomes>>

\* Variant: a missing entry is logged and an empty list returned.
ZipStat_emptyOnMissing ==
    /\ pc = "zip_stat"
    /\ IF file.hasEntry
       THEN /\ pc' = "zip_fopen"
            /\ UNCHANGED styles
       ELSE /\ pc' = "return"
            /\ styles' = <<>>
    /\ UNCHANGED <<file, guards, opened, closed, stylesXml, doc, styleNodes,
                   nodeIt, style, prop, child, err, outcomes>>

\* readStylesXml: zip_stat on word/styles.xml.
ZipStat ==
    /\ pc = "zip_stat"
    /\ IF file.hasEntry
       THEN /\ pc' = "zip_fopen"
            /\ err' = err
       ELSE Throw(EntryNotFoundError)
    /\ UNCHANGED <<file, guards, opened, closed, stylesXml, doc, styleNodes,
                   styles, nodeIt, style, prop, child, outcomes>>

\* Variant: the entry handle is kept as a raw pointer no guard owns.
ZipFopen_rawHandle ==
    /\ pc = "zip_fopen"
    /\ guards' = Append(guards, Guard("stylesFile", FALSE))
    /\ IF file.entryOpenable
       THEN /\ opened' = [opened EXCEPT !.stylesFile = @ + 1]
            /\ pc' = "zip_fread"
            /\ err' = err
       ELSE /\ Throw(EntryOpenError)
            /\ UNCHANGED opened
    /\ UNCHANGED <<file, closed, stylesXml, doc, styleNodes, styles, nodeIt,
                   style, prop, child, outcomes>>

\* readStylesXml: zip_fopen into the stylesFile guard, then the null test.
ZipFopen ==
    /\ pc = "zip_fopen"
    /\ IF file.entryOpenable
       THEN /\ opened' = [opened EXCEPT !.stylesFile = @ + 1]
            /\ guards' = Append(guards, Guard("stylesFile", TRUE))
            /\ pc' = "zip_fread"
            /\ err' = err
       ELSE /\ guards' = Append(guards, Guard("stylesFile", FALSE))
            /\ Throw(EntryOpenError)
            /\ UNCHANGED opened
    /\ UNCHANGED <<file, closed, stylesXml, doc, styleNodes, styles, nodeIt,
                   style, prop, child, outcomes>>

\* readStylesXml: zip_fread into a buffer of the declared size.
ZipFread ==
    /\ pc = "zip_fread"
    /\ IF file.fread # file.size
       THEN /\ Throw(ReadError)
            /\ UNCHANGED stylesXml
       ELSE /\ stylesXml' = <<file.content>>
            /\ pc' = "readReturn"
            /\ err' = err
    /\ UNCHANGED <<file, guards, opened, closed, doc, styleNodes, styles,
                   nodeIt, style, prop, child, outcomes>>

\* readStylesXml returns the buffer: the stylesFile guard goes out of scope.
ReadReturn ==
    /\ pc = "readReturn"
    /\ closed' = Release(Top(guards), closed)
    /\ guards' = Pop(guards)
    /\ pc' = "parseXml"
    /\ UNCHANGED <<file, opened, stylesXml, doc, styleNodes, styles, nodeIt,
                   style, prop, child, err, outcomes>>

\* parseXml: xmlReadMemory, then the guard that owns the tree.
ParseXml ==
    /\ pc = "parseXml"
    /\ IF stylesXml[1].wellFormed
       THEN /\ doc' = <<stylesXml[1].root>>
            /\ opened' = [opened EXCEPT !.doc = @ + 1]
            /\ guards' = Append(guards, Guard("doc", TRUE))
            /\ pc' = "findStyleNodes"
            /\ err' = err
       ELSE /\ Throw(ParseError)
            /\ UNCHANGED <<doc, opened, guards>>
    /\ UNCHANGED <<file, closed, stylesXml, styleNodes, styles, nodeIt, style,
                   prop, child, outcomes>>

\* Variant: the result vector outlives the call (a static vector).
FindStyleNodes_staticStyles ==
    /\ pc = "findStyleNodes"
    /\ styleNodes' = findStyleNodes(doc)
    /\ nodeIt' = 1
    /\ pc' = "for"
    /\ UNCHANGED <<file, guards, opened, closed, stylesXml, doc, styles, style,
                   prop, child, err, outcomes>>

\* findStyleNodes(doc.get()), and the empty result vector.
FindStyleNodes ==
    /\ pc = "findStyleNodes"
    /\ styleNodes' = findStyleNodes(doc)
    /\ styles' = <<>>
    /\ nodeIt' = 1
    /\ pc' = "for"
    /\ UNCHANGED <<file, guards, opened, closed, stylesXml, doc, style, prop,
                   child, err, outcomes>>

\* The element the range-for is at.
CurrentNode == xmlDocGetRootElement(doc).children[styleNodes[nodeIt]]

\* for (auto node : styleNodes): enter processStyleNode with a fresh
\* StyleInfo, or leave the loop.
ForStyleNode ==
    /\ pc = "for"
    /\ IF nodeIt <= Len(styleNodes)
       THEN /\ style' = StyleInfo
            /\ pc' = "extractStyleName"
       ELSE /\ pc' = "return"
            /\ UNCHANGED style
    /\ UNCHANGED <<file, guards, opened, closed, stylesXml, doc, styleNodes,
                   styles, nodeIt, prop, child, err, outcomes>>

ExtractStyleName ==
    /\ pc = "extractStyleName"
    /\ style' = extractStyleName(CurrentNode, style)
    /\ pc' = "type"
    /\ UNCHANGED <<file, guards, opened, closed, stylesXml, doc, styleNodes,
                   styles, nodeIt, prop, child, err, outcomes>>

ReadType ==
    /\ pc = "type"
    /\ style' = readType(CurrentNode, style)
    /\ prop' = 1
    /\ pc' = "extractOtherProperties"
    /\ UNCHANGED <<file, guards, opened, closed, stylesXml, doc, styleNodes,
                   styles, nodeIt, child, err, outcomes>>

\* Variant: the rPr container is flattened too, after its font handling.
ExtractOtherProperties_alsoContainer ==
    /\ pc = "extractOtherProperties"
    /\ IF prop > Len(CurrentNode.children)
       THEN /\ pc' = "push_back"
            /\ UNCHANGED <<style, prop, child>>
       ELSE LET pr == CurrentNode.children[prop]
            IN IF pr.type # XML_ELEMENT_NODE
               THEN /\ prop' = prop + 1
                    /\ UNCHANGED <<pc, style, child>>
               ELSE IF pr.name = "rPr"
               THEN /\ style' = processXmlProperties(pr,
                                    extractFontProperties(pr, style))
                    /\ child' = 1
                    /\ pc' = "children"
                    /\ UNCHANGED prop
               ELSE IF pr.name = "pPr"
               THEN /\ child' = 1
                    /\ pc' = "children"
                    /\ UNCHANGED <<style, prop>>
               ELSE /\ style' = processXmlProperties(pr, style)
                    /\ prop' = prop + 1
                    /\ UNCHANGED <<pc, child>>
    /\ UNCHANGED <<file, guards, opened, closed, stylesXml, doc, styleNodes,
                   styles, nodeIt, err, outcomes>>

\* Variant: font extraction is applied to the pPr container as well.
ExtractOtherProperties_fontInPPr ==
    /\ pc = "extractOtherProperties"
    /\ IF prop > Len(CurrentNode.children)
       THEN /\ pc' = "push_back"
            /\ UNCHANGED <<style, prop, child>>
       ELSE LET pr == CurrentNode.children[prop]
            IN IF pr.type # XML_ELEMENT_NODE
               THEN /\ prop' = prop + 1
                    /\ UNCHANGED <<pc, style, child>>
               ELSE IF pr.name \in {"rPr", "pPr"}
               THEN /\ style' = extractFontProperties(pr, style)
                    /\ child' = 1
                    /\ pc' = "children"
                    /\ UNCHANGED prop
               ELSE /\ style' = processXmlProperties(pr, style)
                    /\ prop' = prop + 1
                    /\ UNCHANGED <<pc, child>>
    /\ UNCHANGED <<file, guards, opened, closed, stylesXml, doc, styleNodes,
                   styles, nodeIt, err, outcomes>>

\* Variant: font extraction replaces the flattening of rPr's children.
ExtractOtherProperties_fontOnly ==
    /\ pc = "extractOtherProperties"
    /\ IF prop > Len(CurrentNode.children)
       THEN /\ pc' = "push_back"
            /\ UNCHANGED <<style, prop, child>>
       ELSE LET pr == CurrentNode.children[prop]
            IN IF pr.type # XML_ELEMENT_NODE
               THEN /\ prop' = prop + 1
                    /\ UNCHANGED <<pc, style, child>>
               ELSE IF pr.name = "rPr"
               THEN /\ style' = extractFontProperties(pr, style)
                    /\ prop' = prop + 1
                    /\ UNCHANGED <<pc, child>>
               ELSE IF pr.name = "pPr"
               THEN /\ child' = 1
                    /\ pc' = "children"
                    /\ UNCHANGED <<style, prop>>
               ELSE /\ style' = processXmlProperties(pr, style)
                    /\ prop' = prop + 1
                    /\ UNCHANGED <<pc, child>>
    /\ UNCHANGED <<file, guards, opened, closed, stylesXml, doc, styleNodes,
                   styles, nodeIt, err, outcomes>>

\* One turn of extractOtherProperties' loop over the style's children.
ExtractOtherProperties ==
    /\ pc = "extractOtherProperties"
    /\ IF prop > Len(CurrentNode.children)
       THEN /\ pc' = "push_back"
            /\ UNCHANGED <<style, prop, child>>
       ELSE LET pr == CurrentNode.children[prop]
            IN IF pr.type # XML_ELEMENT_NODE
               THEN /\ prop' = prop + 1
                    /\ UNCHANGED <<pc, style, child>>
               ELSE IF pr.name = "rPr"
               THEN /\ style' = extractFontProperties(pr, style)
                    /\ child' = 1
                    /\ pc' = "children"
                    /\ UNCHANGED prop
               ELSE IF pr.name = "pPr"
               THEN /\ child' = 1
                    /\ pc' = "children"
                    /\ UNCHANGED <<style, prop>>
               ELSE /\ style' = processXmlProperties(pr, style)
                    /\ prop' = prop + 1
                    /\ UNCHANGED <<pc, child>>
    /\ UNCHANGED <<file, guards, opened, closed, stylesXml, doc, styleNodes,
                   styles, nodeIt, err, outcomes>>

\* One turn of the loop over the children of an rPr / pPr container.
ProcessChildren ==
    /\ pc = "children"
    /\ LET kids == CurrentNode.children[prop].children
       IN IF child <= Len(kids)
          THEN /\ style' = processXmlProperties(kids[child], style)
               /\ child' = child + 1
               /\ UNCHANGED <<pc, prop>>
          ELSE /\ prop' = prop + 1
               /\ pc' = "extractOtherProperties"
               /\ UNCHANGED <<style, child>>
    /\ UNCHANGED <<file, guards, opened, closed, stylesXml, doc, styleNodes,
                   styles, nodeIt, err, outcomes>>

\* Variant: the record is inserted at the front of the vector.
PushBack_front ==
    /\ pc = "push_back"
    /\ styles' = <<style>> \o styles
    /\ nodeIt' = nodeIt + 1
    /\ pc' = "for"
    /\ UNCHANGED <<file, guards, opened, closed, stylesXml, doc, styleNodes,
                   style, prop, child, err, outcomes>>

\* styles.push_back(processStyleNode(node)), then the next element.
PushBack ==
    /\ pc = "push_back"
    /\ styles' = Append(styles, style)
    /\ nodeIt' = nodeIt + 1
    /\ pc' = "for"
    /\ UNCHANGED <<file, guards, opened, closed, stylesXml, doc, styleNodes,
                   style, prop, child, err, outcomes>>

\* A guard's destructor, on return and while an exception unwinds the
\* stack: innermost first.
Destroy ==
    /\ pc \in {"return", "unwind"}
    /\ guards # <<>>
    /\ closed' = Release(Top(guards), closed)
    /\ guards' = Pop(guards)
    /\ doc' = IF Top(guards).res = "doc" THEN NULL ELSE doc
    /\ UNCHANGED <<file, pc, opened, stylesXml, styleNodes, styles, nodeIt,
                   style, prop, child, err, outcomes>>

\* What the caller holds after a call: the returned vector, or the exception.
Returned(v) == [threw |-> FALSE, what |-> "", value |-> v]

Thrown(what) == [threw |-> TRUE, what |-> what, value |-> <<>>]

\* Variant: an empty result is reported as a failure.
Return_emptyIsError ==
    /\ pc = "return"
    /\ guards = <<>>
    /\ outcomes' = Append(outcomes,
                          IF styles = <<>> THEN Thrown("No styles found")
                          ELSE Returned(styles))
    /\ pc' = "idle"
    /\ UNCHANGED <<file, guards, opened, closed, stylesXml, doc, styleNodes,
                   styles, nodeIt, style, prop, child, err>>

\* return styles: the caller receives the vector.
Return ==
    /\ pc = "return"
    /\ guards = <<>>
    /\ outcomes' = Append(outcomes, Returned(styles))
    /\ pc' = "idle"
    /\ UNCHANGED <<file, guards, opened, closed, stylesXml, doc, styleNodes,
                   styles, nodeIt, style, prop, child, err>>

\* The exception leaves extractDocxStyles: the caller receives it.
Propagate ==
    /\ pc = "unwind"
    /\ guards = <<>>
    /\ outcomes' = Append(outcomes, Thrown(err))
    /\ pc' = "idle"
    /\ UNCHANGED <<file, guards, opened, closed, stylesXml, doc, styleNodes,
                   styles, nodeIt, style, prop, child, err>>

Next ==
    \/ Call
    \/ OpenDocxFile
    \/ ZipStat
    \/ ZipFopen
    \/ ZipFread
    \/ ReadReturn
    \/ ParseXml
    \/ FindStyleNodes
    \/ ForStyleNode
    \/ ExtractStyleName
    \/ ReadType
    \/ ExtractOtherProperties
    \/ ProcessChildren
    \/ PushBack
    \/ Destroy
    \/ Return
    \/ Propagate

Spec == Init /\ [][Next]_vars

(***************************************************************************)
(* Vocabulary of the claims: the document as the specification describes   *)
(* it, independent of the loops above.                                     *)
(***************************************************************************)
Root == file.content.root

RootKids == Root.children

SoundFile ==
    /\ file.openable
    /\ file.hasEntry
    /\ file.entryOpenable
    /\ file.fread = file.size
    /\ file.content.wellFormed

IsElem(n, tag) == n.type = XML_ELEMENT_NODE /\ n.name = tag

HasKid(n, tag) == \E k \in DOMAIN n.children : IsElem(n.children[k], tag)

HasAttr(n, a) == \E k \in DOMAIN n.properties : n.properties[k].name = a

AttrVal(n, a) ==
    n.properties[CHOOSE k \in DOMAIN n.properties :
                     n.properties[k].name = a].value

\* Positions under the root of the style elements the locator policy admits.
Qualifying ==
    {n \in DOMAIN RootKids :
        /\ IsElem(RootKids[n], "style")
        /\ HasKid(RootKids[n], "qFormat")
        /\ ~HasKid(RootKids[n], "semiHidden")}

\* The k-th qualifying position in document order.
NthQual(k) ==
    CHOOSE n \in Qualifying : Cardinality({m \in Qualifying : m <= n}) = k

Range(s) == {s[k] : k \in DOMAIN s}

Succeeded == {c \in DOMAIN outcomes : ~outcomes[c].threw}

\* P(record, element) for every returned record and the style element at
\* the same rank among the qualifying ones.
ForEachRecord(P(_, _)) ==
    \A c \in Succeeded :
        \A k \in DOMAIN outcomes[c].value :
            k <= Cardinality(Qualifying) =>
                P(outcomes[c].value[k], RootKids[NthQual(k)])

SomeRecord(P(_, _)) ==
    \E c \in Succeeded :
        \E k \in DOMAIN outcomes[c].value :
            /\ k <= Cardinality(Qualifying)
            /\ P(outcomes[c].value[k], RootKids[NthQual(k)])

\* findStyleNodes has run in the current call.
Located ==
    pc \in {"for", "extractStyleName", "type", "extractOtherProperties",
            "children", "push_back"}

(***************************************************************************)
(* C1: findStyleNodes selects exactly the direct child elements of the     *)
(* root tagged "style" that have a direct qFormat child element and no     *)
(* direct semiHidden child element; a style with both markers is left out  *)
(* whatever their order.                                                   *)
(***************************************************************************)
C1_LocatorPolicy ==
    Located => /\ Range(styleNodes) = Qualifying
               /\ \A n \in DOMAIN RootKids :
                     (HasKid(RootKids[n], "qFormat")
                        /\ HasKid(RootKids[n], "semiHidden"))
                     => n \notin Range(styleNodes)

\* A style with semiHidden before qFormat was examined and left out.
C1_Witness ==
    /\ pc = "for"
    /\ \E n \in DOMAIN RootKids :
          /\ IsElem(RootKids[n], "style")
          /\ \E a, b \in DOMAIN RootKids[n].children :
                /\ a < b
                /\ IsElem(RootKids[n].children[a], "semiHidden")
                /\ IsElem(RootKids[n].children[b], "qFormat")
          /\ n \notin Range(styleNodes)

(***************************************************************************)
(* C2: when open, entry read and parse all succeed the call returns a      *)
(* sequence as long as the number of qualifying style elements; with none  *)
(* qualifying it returns the empty sequence and raises no error.           *)
(***************************************************************************)
C2_LengthIsQualifyingCount ==
    SoundFile =>
        \A c \in DOMAIN outcomes :
            /\ ~outcomes[c].threw
            /\ Len(outcomes[c].value) = Cardinality(Qualifying)

\* A sound document with style elements, none qualifying: empty success.
C2_Witness ==
    /\ SoundFile
    /\ \E n \in DOMAIN RootKids : IsElem(RootKids[n], "style")
    /\ Qualifying = {}
    /\ \E c \in DOMAIN outcomes : outcomes[c] = Returned(<<>>)

(***************************************************************************)
(* C3: the i-th returned record is the one built from the i-th qualifying  *)
(* style element in document order; records are not reordered, and two     *)
(* qualifying elements with the same name give two records.                *)
(***************************************************************************)
C3_DocumentOrder ==
    \A c \in Succeeded :
        /\ Len(outcomes[c].value) = Cardinality(Qualifying)
        /\ \A k \in DOMAIN outcomes[c].value :
              k <= Cardinality(Qualifying) =>
                  outcomes[c].value[k] = processStyleNode(RootKids[NthQual(k)])

\* Two records with one name, different otherwise, both returned in order.
C3_Witness ==
    \E c \in Succeeded :
        /\ Len(outcomes[c].value) = 2
        /\ outcomes[c].value[1].name = outcomes[c].value[2].name
        /\ outcomes[c].value[1].name # ""
        /\ outcomes[c].value[1] # outcomes[c].value[2]

(***************************************************************************)
(* C4: a call on an archive that cannot be opened, lacks word/styles.xml,  *)
(* cannot be fully read or is not well-formed XML ends with the error of   *)
(* the first failing stage and hands the caller no record sequence; only a *)
(* sound file ends in a (possibly empty) returned sequence.                *)
(***************************************************************************)
C4_FailurePropagates ==
    \A c \in DOMAIN outcomes :
        LET o == outcomes[c]
        IN /\ ~file.openable => o = Thrown(OpenError)
           /\ (file.openable /\ ~file.hasEntry)
                 => o = Thrown(EntryNotFoundError)
           /\ (file.openable /\ file.hasEntry /\ ~file.entryOpenable)
                 => o.threw
           /\ (file.openable /\ file.hasEntry /\ file.entryOpenable
                 /\ file.fread # file.size)
                 => o = Thrown(ReadError)
           /\ (file.openable /\ file.hasEntry /\ file.entryOpenable
                 /\ file.fread = file.size /\ ~file.content.wellFormed)
                 => o = Thrown(ParseError)
           /\ o.threw <=> ~SoundFile
           /\ o.threw => o.value = <<>>

\* An archive without the entry whose later stages would fail as well:
\* the caller got the entry-lookup error.
C4_Witness ==
    /\ ~file.content.wellFormed
    /\ file.fread # file.size
    /\ \E c \in DOMAIN outcomes : outcomes[c] = Thrown(EntryNotFoundError)

(***************************************************************************)
(* Positions inside one style element.  <<p, 0>> is the style's p-th       *)
(* child itself, <<p, c>> the c-th child of that child.                    *)
(***************************************************************************)
Before(a, b) == a[1] < b[1] \/ (a[1] = b[1] /\ a[2] <= b[2])

LastPos(S) == CHOOSE x \in S : \A y \in S : Before(y, x)

InsideOf(s, tags) ==
    UNION {{<<p, c>> : c \in DOMAIN s.children[p].children} :
              p \in {q \in DOMAIN s.children :
                        /\ s.children[q].type = XML_ELEMENT_NODE
                        /\ s.children[q].name \in tags}}

At(s, pos) ==
    IF pos[2] = 0 THEN s.children[pos[1]]
    ELSE s.children[pos[1]].children[pos[2]]

FontAttrs == {"ascii", "hAnsi", "eastAsia"}

HasFont(n) == \E a \in FontAttrs : HasAttr(n, a)

\* rFonts children of a direct rPr child that carry a font attribute.
RFontsPos(s) ==
    {pos \in InsideOf(s, {"rPr"}) :
        IsElem(At(s, pos), "rFonts") /\ HasFont(At(s, pos))}

\* sz children of a direct rPr child that carry val.
SzPos(s) ==
    {pos \in InsideOf(s, {"rPr"}) :
        IsElem(At(s, pos), "sz") /\ HasAttr(At(s, pos), "val")}

\* The elements flattened as ordinary properties.
FlatPos(s) ==
    {pos \in InsideOf(s, {"rPr", "pPr"}) :
        At(s, pos).type = XML_ELEMENT_NODE}
    \cup {<<p, 0>> : p \in {q \in DOMAIN s.children :
                               /\ s.children[q].type = XML_ELEMENT_NODE
                               /\ s.children[q].name \notin {"rPr", "pPr"}}}

(***************************************************************************)
(* C5: the record's fontFamily is the value of the highest-priority font   *)
(* attribute present on rFonts (ascii, then hAnsi, then eastAsia),         *)
(* whatever the order the attributes are written in.                       *)
(***************************************************************************)
PreferredFont(n) ==
    IF HasAttr(n, "ascii") THEN AttrVal(n, "ascii")
    ELSE IF HasAttr(n, "hAnsi") THEN AttrVal(n, "hAnsi")
    ELSE AttrVal(n, "eastAsia")

C5_FontPriority ==
    ForEachRecord(LAMBDA r, s :
        RFontsPos(s) # {} =>
            r.fontName = PreferredFont(At(s, LastPos(RFontsPos(s)))))

(***************************************************************************)
(* C6 as stated: a style that has a name child carrying val gets that val  *)
(* as the record's name, and the style element's own name attribute is     *)
(* never the record's name.                                                *)
(***************************************************************************)
NameKids(s) == {k \in DOMAIN s.children : IsElem(s.children[k], "name")}

NameVals(s) ==
    {AttrVal(s.children[k], "val") :
        k \in {j \in NameKids(s) : HasAttr(s.children[j], "val")}}

FirstNameKid(s) ==
    s.children[CHOOSE k \in NameKids(s) : \A j \in NameKids(s) : k <= j]

OwnNameUnused(r, s) == HasAttr(s, "name") => r.name # AttrVal(s, "name")

C6_NameOfAnyNameChild ==
    ForEachRecord(LAMBDA r, s :
        /\ NameVals(s) # {} => r.name \in NameVals(s)
        /\ OwnNameUnused(r, s))

(***************************************************************************)
(* C6 amended: a style whose first name child carries val gets exactly     *)
(* that val as the record's name, untrimmed; the style element's own name  *)
(* attribute is never the record's name.                                   *)
(***************************************************************************)
C6_NameOfFirstNameChild ==
    ForEachRecord(LAMBDA r, s :
        /\ (NameKids(s) # {} /\ HasAttr(FirstNameKid(s), "val"))
              => r.name = AttrVal(FirstNameKid(s), "val")
        /\ OwnNameUnused(r, s))

\* A record named with its surrounding blanks kept, from a style element
\* that has a name attribute of its own.
C6_Witness ==
    SomeRecord(LAMBDA r, s :
        /\ HasAttr(s, "name")
        /\ NameKids(s) # {}
        /\ HasAttr(FirstNameKid(s), "val")
        /\ r.name = " Heading 1 ")

(***************************************************************************)
(* C7: flattening one element writes exactly one entry, keyed by the       *)
(* element's tag name: its val attribute if it has one, else its full text *)
(* content if that is not empty, else the empty string; every other entry  *)
(* and field of the record stays as it was.                                *)
(***************************************************************************)
RECURSIVE FullText(_)
FullText(n) ==
    IF n.type = XML_ELEMENT_NODE
    THEN LET F[k \in 0..Len(n.children)] ==
                 IF k = 0 THEN "" ELSE F[k - 1] \o FullText(n.children[k])
         IN F[Len(n.children)]
    ELSE n.content

Flattened(e) ==
    IF HasAttr(e, "val") THEN AttrVal(e, "val")
    ELSE IF FullText(e) # "" THEN FullText(e)
    ELSE ""

\* The element the next step flattens, if the next step flattens one.
FlattenNext ==
    IF pc = "children"
    THEN LET kids == CurrentNode.children[prop].children
         IN IF child <= Len(kids) /\ kids[child].type = XML_ELEMENT_NODE
            THEN <<kids[child]>> ELSE <<>>
    ELSE IF pc = "extractOtherProperties" /\ prop <= Len(CurrentNode.children)
    THEN LET pr == CurrentNode.children[prop]
         IN IF pr.type = XML_ELEMENT_NODE /\ pr.name \notin {"rPr", "pPr"}
            THEN <<pr>> ELSE <<>>
    ELSE <<>>

C7_FlattenWritesOneEntry ==
    [][FlattenNext # <<>> =>
         LET e == FlattenNext[1]
         IN /\ DOMAIN style'.properties = DOMAIN style.properties \cup {e.name}
            /\ e.name \in DOMAIN style'.properties
            /\ style'.properties[e.name] = Flattened(e)
            /\ \A k \in DOMAIN style.properties \ {e.name} :
                  style'.properties[k] = style.properties[k]
            /\ style' = [style EXCEPT !.properties = style'.properties]]_vars

\* <qFormat/> has just been flattened into an entry with the empty string.
C7_Witness ==
    /\ pc = "extractOtherProperties"
    /\ prop = 2
    /\ CurrentNode.children[1] = QFormat
    /\ style.properties = [k \in {"qFormat"} |-> ""]

(***************************************************************************)
(* C8: all calls on the unchanged file have the same outcome: the same     *)
(* error, or equal record sequences.                                       *)
(***************************************************************************)
C8_SameOutcome ==
    \A a, b \in DOMAIN outcomes : outcomes[a] = outcomes[b]

\* Two calls have returned, each with two records.
C8_Witness ==
    /\ Len(outcomes) = 2
    /\ ~outcomes[1].threw
    /\ Len(outcomes[1].value) = 2
    /\ Len(outcomes[2].value) = 2

(***************************************************************************)
(* C9: a handle is live exactly while a guard holds it, no handle is       *)
(* released more often than it was acquired, and when the call has         *)
(* returned or thrown every handle acquired has been released.             *)
(***************************************************************************)
Held(r) == Cardinality({k \in DOMAIN guards : guards[k] = Guard(r, TRUE)})

C9_ReleasedExactlyOnce ==
    \A r \in Resources :
        /\ closed[r] <= opened[r]
        /\ opened[r] - closed[r] = Held(r)
        /\ pc = "idle" => (closed[r] = opened[r] /\ guards = <<>>)

\* A call that failed at the read stage has ended with the archive and the
\* entry handle both released.
C9_Witness ==
    /\ pc = "idle"
    /\ Len(outcomes) = 1
    /\ outcomes[1] = Thrown(ReadError)
    /\ opened = [r \in Resources |-> IF r = "doc" THEN 0 ELSE 1]
    /\ closed = opened

(***************************************************************************)
(* C10: for a direct rPr child both behaviours apply: fontName comes from  *)
(* rFonts and fontSize is the raw val of sz, and every element child of    *)
(* rPr, rFonts and sz included, also has an entry in properties under its  *)
(* own tag; where the rPr's sz is the last element tagged sz that is       *)
(* flattened, properties["sz"] and fontSize hold the same val.             *)
(***************************************************************************)
FontValues(n) == {AttrVal(n, a) : a \in {b \in FontAttrs : HasAttr(n, b)}}

C10_FontAndProperties ==
    ForEachRecord(LAMBDA r, s :
        /\ \A pos \in InsideOf(s, {"rPr"}) :
              At(s, pos).type = XML_ELEMENT_NODE
                 => At(s, pos).name \in DOMAIN r.properties
        /\ IF SzPos(s) = {} THEN r.fontSize = ""
           ELSE r.fontSize = AttrVal(At(s, LastPos(SzPos(s))), "val")
        /\ IF RFontsPos(s) = {} THEN r.fontName = ""
           ELSE r.fontName \in FontValues(At(s, LastPos(RFontsPos(s))))
        /\ LET szs == {pos \in FlatPos(s) : At(s, pos).name = "sz"}
           IN (szs # {} /\ LastPos(szs) \in SzPos(s)) =>
                 /\ "sz" \in DOMAIN r.properties
                 /\ r.properties["sz"] = AttrVal(At(s, LastPos(szs)), "val")
                 /\ r.properties["sz"] = r.fontSize)

\* <rPr><rFonts .../><sz val="24"/></rPr> gave a font name, the size "24"
\* and the entries rFonts and sz.
C10_Witness ==
    SomeRecord(LAMBDA r, s :
        /\ r.fontSize = "24"
        /\ r.fontName = "Calibri"
        /\ DOMAIN r.properties = {"qFormat", "rFonts", "sz"}
        /\ r.properties["sz"] = "24")

(***************************************************************************)
(* C11 as stated: a record from a style element with a direct rPr child    *)
(* has no entry keyed "rPr", whatever else the style element holds.        *)
(***************************************************************************)
FlatTags(s) == {At(s, pos).name : pos \in FlatPos(s)}

C11_NoRPrKey ==
    ForEachRecord(LAMBDA r, s :
        HasKid(s, "rPr") => "rPr" \notin DOMAIN r.properties)

(***************************************************************************)
(* C11 amended: the direct rPr child writes no entry of its own: a record  *)
(* has an entry keyed "rPr" exactly when an element tagged rPr is a child  *)
(* of a direct pPr or rPr child, where it is flattened like any other.     *)
(***************************************************************************)
C11_RPrKeyOnlyFromNested ==
    ForEachRecord(LAMBDA r, s :
        "rPr" \in DOMAIN r.properties <=> "rPr" \in FlatTags(s))

\* A style with a direct rPr, font-handled, and a pPr beside it: no entry
\* keyed rPr.
C11_Witness ==
    SomeRecord(LAMBDA r, s :
        /\ HasKid(s, "rPr")
        /\ HasKid(s, "pPr")
        /\ r.fontSize = "24"
        /\ "sz" \in DOMAIN r.properties
        /\ "rPr" \notin DOMAIN r.properties)

(***************************************************************************)
(* C12: every element child of a direct pPr child has an entry under its   *)
(* own tag and the pPr child writes none of its own (a key "pPr" comes     *)
(* only from an element tagged pPr flattened inside a container); rFonts   *)
(* and sz inside pPr never reach fontName and fontSize, which are empty    *)
(* unless a direct rPr child declares them.                                *)
(***************************************************************************)
C12_ParagraphPropertiesOnlyFlattened ==
    ForEachRecord(LAMBDA r, s :
        /\ \A pos \in InsideOf(s, {"pPr"}) :
              At(s, pos).type = XML_ELEMENT_NODE
                 => At(s, pos).name \in DOMAIN r.properties
        /\ "pPr" \in DOMAIN r.properties <=> "pPr" \in FlatTags(s)
        /\ IF SzPos(s) = {} THEN r.fontSize = ""
           ELSE r.fontSize = AttrVal(At(s, LastPos(SzPos(s))), "val")
        /\ IF RFontsPos(s) = {} THEN r.fontName = ""
           ELSE r.fontName \in FontValues(At(s, LastPos(RFontsPos(s)))))

\* <pPr><jc/><sz val="20"/><rFonts ascii=".."/></pPr> and no rPr: the
\* entries are there, the font fields are empty.
C12_Witness ==
    SomeRecord(LAMBDA r, s :
        /\ HasKid(s, "pPr")
        /\ ~HasKid(s, "rPr")
        /\ \E pos \in InsideOf(s, {"pPr"}) :
              IsElem(At(s, pos), "rFonts") /\ HasFont(At(s, pos))
        /\ {"jc", "sz", "rFonts"} \subseteq DOMAIN r.properties
        /\ r.properties["sz"] = "20"
        /\ "pPr" \notin DOMAIN r.properties
        /\ r.fontName = ""
        /\ r.fontSize = "")

(***************************************************************************)
(* C13: flattening runs in document order over the style's children,       *)
(* descending into rPr and pPr at their position; the record's properties  *)
(* have exactly one entry per flattened tag, and a tag flattened more than *)
(* once holds the value of the last such element.                          *)
(***************************************************************************)
TagPos(s, t) == {pos \in FlatPos(s) : At(s, pos).name = t}

C13_LastWriteWins ==
    ForEachRecord(LAMBDA r, s :
        /\ DOMAIN r.properties = FlatTags(s)
        /\ \A t \in FlatTags(s) :
              r.properties[t] = Flattened(At(s, LastPos(TagPos(s, t)))))

\* A tag flattened twice, once as a direct child and once inside a
\* container, with different values: the record holds the later one.
C13_Witness ==
    SomeRecord(LAMBDA r, s :
        \E a \in FlatPos(s), b \in FlatPos(s) :
            /\ a # b
            /\ Before(a, b)
            /\ (a[2] = 0) # (b[2] = 0)
            /\ At(s, a).name = At(s, b).name
            /\ Flattened(At(s, a)) # Flattened(At(s, b))
            /\ b = LastPos(TagPos(s, At(s, b).name))
            /\ At(s, b).name \in DOMAIN r.properties
            /\ r.properties[At(s, b).name] = Flattened(At(s, b)))

(***************************************************************************)
(* C14: building a record cannot fail: no step between entering the loop   *)
(* body and push_back raises or touches the pending exception.  In the     *)
(* returned record, type is the style's type attribute when it has one,    *)
(* and name, type, fontName and fontSize are empty when their source (a    *)
(* name child with val, the type attribute, an rFonts font attribute, an   *)
(* sz val attribute) is absent.                                            *)
(***************************************************************************)
Processing ==
    pc \in {"extractStyleName", "type", "extractOtherProperties", "children",
            "push_back"}

DefaultsWhenAbsent(r, s) ==
    /\ r.type = (IF HasAttr(s, "type") THEN AttrVal(s, "type") ELSE "")
    /\ NameVals(s) = {} => r.name = ""
    /\ RFontsPos(s) = {} => r.fontName = ""
    /\ SzPos(s) = {} => r.fontSize = ""

C14_NoFailureAndDefaults ==
    /\ [](ForEachRecord(DefaultsWhenAbsent))
    /\ [][Processing => (pc' # "unwind" /\ err' = err)]_vars

\* A record with all four fields empty, from a style without a type
\* attribute whose only name child has no val, next to entries that were
\* flattened.
C14_Witness ==
    SomeRecord(LAMBDA r, s :
        /\ ~HasAttr(s, "type")
        /\ HasKid(s, "name")
        /\ NameVals(s) = {}
        /\ r.name = ""
        /\ r.type = ""
        /\ r.fontName = ""
        /\ r.fontSize = ""
        /\ "name" \in DOMAIN r.properties)

(***************************************************************************)
(* C15: every returned record has a properties entry keyed "qFormat" (the  *)
(* marker that admitted the style is a direct child and is flattened like  *)
(* any other), and no record is built from a style element with a direct   *)
(* semiHidden child.                                                       *)
(***************************************************************************)
C15_RecordsCarryQFormat ==
    /\ \A c \in Succeeded :
          \A k \in DOMAIN outcomes[c].value :
              "qFormat" \in DOMAIN outcomes[c].value[k].properties
    /\ \A k \in DOMAIN styles : "qFormat" \in DOMAIN styles[k].properties
    /\ pc = "push_back" =>
          /\ HasKid(CurrentNode, "qFormat")
          /\ ~HasKid(CurrentNode, "semiHidden")
          /\ "qFormat" \in DOMAIN style.properties

\* A document with a hidden style next to a qualifying one: one record
\* returned, carrying the qFormat entry.
C15_Witness ==
    /\ \E n \in DOMAIN RootKids :
          IsElem(RootKids[n], "style") /\ HasKid(RootKids[n], "semiHidden")
    /\ \E c \in Succeeded :
          /\ Len(outcomes[c].value) = 1
          /\ "qFormat" \in DOMAIN outcomes[c].value[1].properties
          /\ outcomes[c].value[1].properties["qFormat"] = ""

(***************************************************************************)
(* C16: extractStyleName looks at the first direct child element tagged    *)
(* "name" and at no other: the record's name is that child's val, and is   *)
(* empty when that child has no val, even if a later name child has one.   *)
(***************************************************************************)
C16_OnlyFirstNameChild ==
    ForEachRecord(LAMBDA r, s :
        r.name = (IF NameKids(s) # {} /\ HasAttr(FirstNameKid(s), "val")
                  THEN AttrVal(FirstNameKid(s), "val")
                  ELSE ""))

\* The first name child has no val and a later one has: the name is empty.
C16_Witness ==
    SomeRecord(LAMBDA r, s :
        /\ Cardinality(NameKids(s)) > 1
        /\ ~HasAttr(FirstNameKid(s), "val")
        /\ NameVals(s) # {}
        /\ r.name = "")

====
